---- MODULE Spec2Model ----
(***************************************************************************)
(* A model of vim_color_term.py: the named colour table loader, the       *)
(* colour distance, generate_options (extraction, finalization, sorted    *)
(* formatting) and the candidate loop of the main program.                *)
(*                                                                         *)
(* Python strings are TLA+ strings; a character is a string of length 1.  *)
(* A text file is a sequence of lines, each ending in "\n".               *)
(*                                                                         *)
(* Where a value is computed once and read several times, it is bound by   *)
(*     CHOOSE r \in {<body with x> : x \in {<value>}} : TRUE               *)
(* which is <body> with x standing for <value>, evaluated once.            *)
(***************************************************************************)
EXTENDS Integers, Sequences, FiniteSets, TLC

VARIABLES
    pc,                 \* position of the run
    rgbfile,            \* lines of VIMRUNTIME/rgb.txt
    NAMED_COLORS,       \* the module-level dict: lowercase name -> hex string
    PARSED_ARGS,        \* which terminal was asked for: "urxvt", "kitty" or "xterm"
    GLOBBED_FILES,      \* the shuffled candidate paths
    vim_file,           \* index in GLOBBED_FILES of the candidate the loop is at
    attempts,           \* per candidate tried so far: did generate_options return
    command,            \* the command list
    term_environment,   \* what the run adds to the environment of the terminal
    popen,              \* the argument lists subprocess.Popen was called with
    vimfile,            \* content of the theme file given to generate_options
    option_format,      \* the format given to generate_options
    result              \* what the last call of generate_options did

vars == <<pc, rgbfile, NAMED_COLORS, PARSED_ARGS, GLOBBED_FILES, vim_file, attempts,
          command, term_environment, popen, vimfile, option_format, result>>

----------------------------------------------------------------------------
(* Characters and strings                                                  *)

\* The printable ASCII characters in code point order: " " (32) to "_" (95), and
\* "a" (97) to "~" (126). (The grave accent, 96, cannot be written in a TLA+
\* string; no line of the model holds one.)
ASCII_32_95 == " !\"#$%&'()*+,-./0123456789:;<=>?@ABCDEFGHIJKLMNOPQRSTUVWXYZ[\\]^_"
ASCII_97_126 == "abcdefghijklmnopqrstuvwxyz{|}~"

Char(s, i) == SubSeq(s, i, i)

\* Python's chr() and ord() on the characters a line can hold.
Chr(n) ==
    IF n = 9 THEN "\t"
    ELSE IF n = 10 THEN "\n"
    ELSE IF n <= 95 THEN Char(ASCII_32_95, n - 31)
    ELSE Char(ASCII_97_126, n - 96)

CodePoints == {9, 10} \cup (32..95) \cup (97..126)

Ord == [c \in {Chr(n) : n \in CodePoints} |-> CHOOSE n \in CodePoints : Chr(n) = c]

CharsBetween(first, last) == {Chr(n) : n \in Ord[first]..Ord[last]}

UpperChars == CharsBetween("A", "Z")
LowerChars == CharsBetween("a", "z")
DigitChars == CharsBetween("0", "9")
LowerHexChars == DigitChars \cup CharsBetween("a", "f")
HexChars == LowerHexChars \cup CharsBetween("A", "F")
WordChars == UpperChars \cup LowerChars \cup DigitChars \cup {"_"}

IsUpper(c) == c \in UpperChars
IsLower(c) == c \in LowerChars
IsDigit(c) == c \in DigitChars

\* The character classes of the program's regular expressions, on ASCII
InClass(class, c) ==
    CASE class = "\\s" -> c \in {" ", "\t", "\n"}
      [] class = "\\d" -> c \in DigitChars
      [] class = "[#\\w]" -> c = "#" \/ c \in WordChars
      [] class = "[0-9a-f]" -> c \in LowerHexChars
      [] class = "." -> c # "\n"

RECURSIVE lower(_)
\* str.lower()
lower(s) ==
    IF s = "" THEN ""
    ELSE LET c == Char(s, 1)
         IN  (IF IsUpper(c) THEN Chr(Ord[c] + 32) ELSE c) \o lower(SubSeq(s, 2, Len(s)))

\* s[i:j] of Python for 0 <= i <= j: the characters at 0-based positions i..j-1
\* that exist.
Slice(s, i, j) ==
    IF i >= Len(s) THEN "" ELSE SubSeq(s, i + 1, IF j > Len(s) THEN Len(s) ELSE j)

RECURSIVE StrLessFrom(_, _, _)
\* Is a < b, for strings a and b that agree before position i?
StrLessFrom(a, b, i) ==
    IF i > Len(b) THEN FALSE
    ELSE IF i > Len(a) THEN TRUE
    ELSE IF Char(a, i) # Char(b, i) THEN Ord[Char(a, i)] < Ord[Char(b, i)]
    ELSE StrLessFrom(a, b, i + 1)

\* a < b on Python strings: code point by code point, a proper prefix first.
StrLess(a, b) == StrLessFrom(a, b, 1)

Min(S) == CHOOSE x \in S : \A y \in S : x <= y
Max(S) == CHOOSE x \in S : \A y \in S : x >= y

----------------------------------------------------------------------------
(* Program constants                                                       *)

FONT_NAME == "Anonymous Pro Regular"
BOLD_FONT_NAME == "Anonymous Pro Bold"
ITALIC_FONT_NAME == "Anonymous Pro Italic"
BOLD_ITALIC_FONT_NAME == "Anonymous Pro Bold Italic"
FONT_SIZE == "11"

ENV_COLOR_SCHEME_NAME_VAR == "VIM_COLOR_TERM_COLOR_SCHEME_FILE"

XTERM_XRESOURCES ==
    << "xterm*termName: xterm-256color",
       "xterm*loginShell: true",
       "xterm*dynamicColors: true",
       "xterm.vt100.blink: true",
       "XTerm.vt100.locale : true",
       "XTerm.vt100.scrollBar: true",
       "XTerm.vt100.scrollbar.width: 8",
       "xterm*faceName: " \o FONT_NAME,
       "xterm*faceSize: " \o FONT_SIZE,
       "xterm*saveLines: 200000",
       "xterm*visualBell: True",
       "xterm*boldMode: true",
       "xterm*renderFont: true" >>

URXVT_XRESOURCES ==
    << "URxvt.termName: rxvt-unicode-256color",
       "URxvt.font: xft:" \o FONT_NAME \o ":style=Regular:size=" \o FONT_SIZE,
       "URxvt.boldFont: xft:" \o FONT_NAME \o ":style=Bold:size=" \o FONT_SIZE,
       "URxvt.italicFont: xft:" \o FONT_NAME \o ":style=Italic:size=" \o FONT_SIZE,
       "URxvt.boldItalicfont: xft:" \o FONT_NAME \o ":style=Bold Italic:size=" \o FONT_SIZE,
       "URxvt.letterSpace: 0",
       "URxvt.lineSpace: 0",
       "URxvt.geometry: 80x24",
       "URxvt.internalBorder: 0",
       "URxvt.cursorBlink: true",
       "URxvt.cursorUnderline: false",
       "URxvt.saveLines: 200000",
       "URxvt.scrollBar: true",
       "URxvt.scrollBar_right: false",
       "URxvt.urgentOnBell: true",
       "URxvt.depth: 24",
       "URxvt.iso14755: false" >>

KITTY_OPTIONS ==
    << "term=xterm-kitty",
       "font_size=" \o FONT_SIZE,
       "font_family=" \o FONT_NAME,
       "bold_font=" \o BOLD_FONT_NAME,
       "italic_font=" \o ITALIC_FONT_NAME,
       "bold_italic_font=" \o BOLD_ITALIC_FONT_NAME,
       "scrollback_lines=200000",
       "kitty_mod=super" >>

\* The keys of MAPPINGS in the order of the dict literal, which is the order in
\* which the dict is iterated.
MAPPINGS_keys ==
    << "foreground", "background",
       "color0", "color1", "color2", "color3", "color4", "color5", "color6", "color7",
       "color8", "color9", "color10", "color11", "color12", "color13", "color14",
       "color15" >>

\* MAPPINGS: every regex is r'.*<group>.*?<key>([#\w]+).*'; an entry holds the
\* two literal parts of its regex.
MAPPINGS ==
    [option \in {MAPPINGS_keys[i] : i \in 1..Len(MAPPINGS_keys)} |->
        CASE option = "foreground" -> [group |-> "Normal", key |-> "guifg="]
          [] option = "background" -> [group |-> "Normal", key |-> "guibg="]
          [] option \in {"color0", "color8"} -> [group |-> "Comment", key |-> "guifg="]
          [] option \in {"color1", "color9"} -> [group |-> "ErrorMsg", key |-> "guifg="]
          [] option \in {"color2", "color10"} -> [group |-> "Type", key |-> "guifg="]
          [] option \in {"color3", "color11"} -> [group |-> "WarningMsg", key |-> "guifg="]
          [] option \in {"color4", "color12"} -> [group |-> "PreProc", key |-> "guifg="]
          [] option \in {"color5", "color13"} -> [group |-> "Special", key |-> "guifg="]
          [] option \in {"color6", "color14"} -> [group |-> "Search", key |-> "guifg="]
          [] option \in {"color7", "color15"} -> [group |-> "Todo", key |-> "guifg="]]

URXVT_COMMAND == "urxvt"
URXVT_XRESOURCES_PREFIX == "-xrm"
KITTY_COMMAND == "kitty"
KITTY_OPTIONS_PREFIX == "-o"
XTERM_COMMAND == "xterm"
XTERM_XRESOURCES_PREFIX == "-xrm"

----------------------------------------------------------------------------
(* Numbers and text                                                        *)

RECURSIVE SpanEnd(_, _, _)
\* The first position from i on that holds no character of the class, or
\* Len(s) + 1: where a greedy class* starting at i ends.
SpanEnd(s, i, class) ==
    IF i > Len(s) \/ ~InClass(class, Char(s, i)) THEN i ELSE SpanEnd(s, i + 1, class)

RECURSIVE int10(_)
\* int(s) for s a run of decimal digits
int10(s) ==
    IF s = "" THEN 0
    ELSE 10 * int10(SubSeq(s, 1, Len(s) - 1)) + (Ord[Char(s, Len(s))] - Ord["0"])

HexDigits == "0123456789abcdef"

RECURSIVE hex(_)
\* format(n, 'x') for n >= 0
hex(n) ==
    IF n < 16 THEN Char(HexDigits, n + 1)
    ELSE hex(n \div 16) \o Char(HexDigits, (n % 16) + 1)

\* "{0:02x}".format(n): at least two digits, zero padded
format_02x(n) == IF n < 16 THEN "0" \o hex(n) ELSE hex(n)

\* Does int(s, 16) return (rather than raise ValueError), for s made of the
\* characters [#\w] leave in a value: a non-empty run of hex digits.
IsHexLiteral(s) ==
    /\ s # ""
    /\ \A i \in 1..Len(s) : Char(s, i) \in HexChars

RECURSIVE int16(_)
\* int(s, 16) where it returns
int16(s) ==
    IF s = "" THEN 0
    ELSE LET c == Char(s, Len(s))
             d == IF IsDigit(c) THEN Ord[c] - Ord["0"]
                  ELSE IF IsLower(c) THEN Ord[c] - Ord["a"] + 10
                  ELSE Ord[c] - Ord["A"] + 10
         IN  16 * int16(SubSeq(s, 1, Len(s) - 1)) + d

RECURSIVE FloorSqrtBetween(_, _, _)
\* The r with lo <= r < hi and r*r <= n < (r+1)*(r+1), given lo*lo <= n < hi*hi.
FloorSqrtBetween(n, lo, hi) ==
    IF hi - lo <= 1 THEN lo
    ELSE LET mid == (lo + hi) \div 2
         IN  IF mid * mid <= n THEN FloorSqrtBetween(n, mid, hi)
             ELSE FloorSqrtBetween(n, lo, mid)

\* floor(math.sqrt(n)) for an integer 0 <= n < 2^20. The program only compares
\* the square root with 10.0, and sqrt(n) < 10.0 exactly when its floor is < 10.
FloorSqrt(n) == FloorSqrtBetween(n, 0, 1024)

\* The places of s where pat occurs
Occurrences(s, pat) ==
    {p \in 1..(Len(s) - Len(pat) + 1) : SubSeq(s, p, p + Len(pat) - 1) = pat}

\* fmt.format(a, b) for a format that holds the field {0} once and, after it,
\* the field {1} once, as the three formats of the program do
str_format(fmt, a, b) ==
    CHOOSE r \in {
        SubSeq(fmt, 1, p0 - 1) \o a \o SubSeq(fmt, p0 + 3, p1 - 1) \o b
            \o SubSeq(fmt, p1 + 3, Len(fmt))
      : p0 \in Occurrences(fmt, "{0}"), p1 \in Occurrences(fmt, "{1}") } : TRUE

\* list.insert at the place that keeps a sorted list sorted, after the items
\* that are not greater (sorted() is stable)
InsertSorted(sortedSeq, x) ==
    CHOOSE r \in {
        SubSeq(sortedSeq, 1, k) \o <<x>> \o SubSeq(sortedSeq, k + 1, Len(sortedSeq))
      : k \in {Cardinality({i \in 1..Len(sortedSeq) : ~StrLess(x, sortedSeq[i])})} } : TRUE

RECURSIVE SortedUpTo(_, _)
\* sorted(list[:n])
SortedUpTo(list, n) ==
    IF n = 0 THEN <<>>
    ELSE CHOOSE r \in {InsertSorted(before, list[n]) : before \in {SortedUpTo(list, n - 1)}} : TRUE

\* sorted() of a list of strings: ascending by <, stable
sorted(list) == SortedUpTo(list, Len(list))

\* A text file: it can be opened or not, and holds lines.
NoFile == [exists |-> FALSE, lines |-> <<>>]
TextFile(lines) == [exists |-> TRUE, lines |-> lines]

----------------------------------------------------------------------------
(* load_vim_named_colors                                                   *)

\* color_regex.match(line) for r'^\s*(\d+)\s+(\d+)\s+(\d+)\s+(.*)$'. The classes
\* \s and \d are disjoint, so each greedy run ends where its class ends and
\* nothing is given back; (.*) stops at the line's "\n" or at its end, where $
\* matches.
color_regex_match(line) ==
    LET r0 == SpanEnd(line, 1, "\\s")
        r1 == SpanEnd(line, r0, "\\d")
        g0 == SpanEnd(line, r1, "\\s")
        g1 == SpanEnd(line, g0, "\\d")
        b0 == SpanEnd(line, g1, "\\s")
        b1 == SpanEnd(line, b0, "\\d")
        n0 == SpanEnd(line, b1, "\\s")
        n1 == SpanEnd(line, n0, ".")
    IN  IF r1 > r0 /\ g0 > r1 /\ g1 > g0 /\ b0 > g1 /\ b1 > b0 /\ n0 > b1
        THEN [matched |-> TRUE,
              groups |-> << SubSeq(line, r0, r1 - 1), SubSeq(line, g0, g1 - 1),
                            SubSeq(line, b0, b1 - 1), SubSeq(line, n0, n1 - 1) >>]
        ELSE [matched |-> FALSE, groups |-> <<>>]

\* named_color_hex with the fields {0:02x}{1:02x}{2:02x}: red, green and blue.
named_color_hex_rgb(ints) == format_02x(ints[1]) \o format_02x(ints[2]) \o format_02x(ints[3])

\* "{0:02x}{0:02x}{0:02x}".format(*ints): every field is field 0
named_color_hex(ints) == format_02x(ints[1]) \o format_02x(ints[1]) \o format_02x(ints[1])

\* d[key] = value on a dict held as a function
DictSet(d, key, value) ==
    [k \in DOMAIN d \cup {key} |-> IF k = key THEN value ELSE d[k]]

EmptyDict == [k \in {} |-> ""]

RECURSIVE read_rgb_lines(_, _)
\* The for loop over the lines of rgb.txt, from the dict named_colors
read_rgb_lines(lines, named_colors) ==
    IF lines = <<>> THEN named_colors
    ELSE LET color_matcher == color_regex_match(Head(lines))
             after ==
                 IF color_matcher.matched
                 THEN DictSet(named_colors, lower(color_matcher.groups[4]),
                              named_color_hex([i \in 1..3 |-> int10(color_matcher.groups[i])]))
                 ELSE named_colors
         IN  read_rgb_lines(Tail(lines), after)

\* load_vim_named_colors(): NAMED_COLORS after it, when rgb.txt can be opened
load_vim_named_colors(file, named_colors) == read_rgb_lines(file.lines, named_colors)

----------------------------------------------------------------------------
(* color_distance                                                          *)

\* Does color_distance raise ValueError (an int(..., 16) of a slice fails)?
color_distance_raises(color_a_hex_string, color_b_hex_string) ==
    \E str \in {color_a_hex_string, color_b_hex_string} :
        \E i \in {0, 2, 4} : ~IsHexLiteral(Slice(str, i, i + 2))

\* color_distance_radicand with int(767 - int(rmean)): rmean rounded down before
\* it is subtracted.
color_distance_radicand_int_rmean(color_a_hex_string, color_b_hex_string) ==
    LET color_a_tuple == [i \in 1..3 |-> int16(Slice(color_a_hex_string, 2 * i - 2, 2 * i))]
        color_b_tuple == [i \in 1..3 |-> int16(Slice(color_b_hex_string, 2 * i - 2, 2 * i))]
        rsum == color_a_tuple[1] + color_b_tuple[1]
        red == color_a_tuple[1] - color_b_tuple[1]
        green == color_a_tuple[2] - color_b_tuple[2]
        blue == color_a_tuple[3] - color_b_tuple[3]
    IN  (((512 + (rsum \div 2)) * red * red) \div 256) + 4 * green * green
          + (((767 - (rsum \div 2)) * blue * blue) \div 256)

\* The argument of math.sqrt in color_distance. rmean is the float (a+b)/2, so
\* int(512 + rmean) is 512 + floor((a+b)/2) and int(767 - rmean), a truncation
\* of a positive number, is floor((1534 - (a+b))/2); >> 8 of a number >= 0 is
\* a division by 256.
color_distance_radicand(color_a_hex_string, color_b_hex_string) ==
    LET color_a_tuple == [i \in 1..3 |-> int16(Slice(color_a_hex_string, 2 * i - 2, 2 * i))]
        color_b_tuple == [i \in 1..3 |-> int16(Slice(color_b_hex_string, 2 * i - 2, 2 * i))]
        rsum == color_a_tuple[1] + color_b_tuple[1]
        red == color_a_tuple[1] - color_b_tuple[1]
        green == color_a_tuple[2] - color_b_tuple[2]
        blue == color_a_tuple[3] - color_b_tuple[3]
    IN  (((512 + (rsum \div 2)) * red * red) \div 256) + 4 * green * green
          + ((((1534 - rsum) \div 2) * blue * blue) \div 256)

\* floor(color_distance(a, b)), where color_distance returns
color_distance(color_a_hex_string, color_b_hex_string) ==
    FloorSqrt(color_distance_radicand(color_a_hex_string, color_b_hex_string))

----------------------------------------------------------------------------
(* generate_options                                                        *)

NoMatch == [matched |-> FALSE, group1 |-> ""]

\* The places of line where <key>([#\w]+) matches: the key, followed by at
\* least one character of [#\w]
KeyPlaces(line, key) ==
    {q \in Occurrences(line, key) :
        /\ q + Len(key) <= Len(line)
        /\ InClass("[#\\w]", Char(line, q + Len(key)))}

\* reggie.match(line) for r'.*<group>.*?<key>([#\w]+).*'. The greedy first .*
\* takes the last occurrence of the group's name that the rest can match after,
\* the lazy .*? the first place after it where the key matches, and ([#\w]+)
\* the whole run that follows the key. (A line holds "\n" only at its end, so
\* that . does not match it changes nothing.)
mapping_match(reggie, line) ==
    CHOOSE r \in {
        IF starts = {} THEN NoMatch
        ELSE CHOOSE r2 \in {
                 IF \A p \in starts : \A q \in places : q < p + Len(reggie.group)
                 THEN NoMatch
                 ELSE CHOOSE r3 \in {
                          [matched |-> TRUE,
                           group1 |-> SubSeq(line, q + Len(reggie.key),
                                             SpanEnd(line, q + Len(reggie.key), "[#\\w]") - 1)]
                        : q \in {Min({x \in places :
                                        x >= Max({p \in starts : \E y \in places :
                                                      y >= p + Len(reggie.group)})
                                             + Len(reggie.group)})} } : TRUE
               : places \in {KeyPlaces(line, reggie.key)} } : TRUE
      : starts \in {Occurrences(line, reggie.group)} } : TRUE

\* hex_regex.match(value) for '#([0-9a-f]{6})': at the start of value, anything
\* may follow the six digits.
hex_regex_match(value) ==
    /\ Len(value) >= 7
    /\ Char(value, 1) = "#"
    /\ \A i \in 2..7 : InClass("[0-9a-f]", Char(value, i))

\* resolve_lowered with the test for 'fg' and 'bg' before the look-up in
\* NAMED_COLORS.
resolve_lowered_deferred_first(vim_color_value) ==
    IF vim_color_value \in {"fg", "bg"}
    THEN [raised |-> FALSE, hex_value |-> vim_color_value]
    ELSE IF vim_color_value \in DOMAIN NAMED_COLORS
    THEN [raised |-> FALSE, hex_value |-> NAMED_COLORS[vim_color_value]]
    ELSE IF hex_regex_match(vim_color_value)
    THEN [raised |-> FALSE, hex_value |-> SubSeq(vim_color_value, 2, 7)]
    ELSE [raised |-> TRUE, hex_value |-> "invalid hex: " \o vim_color_value]

\* Lines 229-241: the value stored for vim_color_value, or the raise.
resolve_lowered(vim_color_value) ==
    IF vim_color_value \in DOMAIN NAMED_COLORS
    THEN [raised |-> FALSE, hex_value |-> NAMED_COLORS[vim_color_value]]
    ELSE IF vim_color_value \in {"fg", "bg"}
    THEN [raised |-> FALSE, hex_value |-> vim_color_value]
    ELSE IF hex_regex_match(vim_color_value)
    THEN [raised |-> FALSE, hex_value |-> SubSeq(vim_color_value, 2, 7)]
    ELSE [raised |-> TRUE, hex_value |-> "invalid hex: " \o vim_color_value]

\* resolve_color without .lower(): the reference is looked up as written.
resolve_color_as_written(group1) == resolve_lowered(group1)

\* Lines 228-241: vim_color_value = matcher.groups()[0].lower(), then the above.
resolve_color(group1) ==
    CHOOSE r \in {resolve_lowered(vim_color_value) : vim_color_value \in {lower(group1)}} : TRUE

NotFound == [found |-> FALSE, raised |-> FALSE, hex_value |-> ""]

RECURSIVE scan_file_last_match(_, _, _)
\* scan_file without the break: a later matching line overwrites the value.
scan_file_last_match(reggie, lines, i) ==
    IF i > Len(lines) THEN NotFound
    ELSE CHOOSE r \in {
             IF later.found THEN later
             ELSE IF matcher.matched
             THEN [found |-> TRUE] @@ resolve_color(matcher.group1)
             ELSE NotFound
           : later \in {scan_file_last_match(reggie, lines, i + 1)},
             matcher \in {mapping_match(reggie, lines[i])} } : TRUE

RECURSIVE scan_file(_, _, _)
\* Lines 225-244, the scan of the file for one option from line number i on:
\* the first line the regex matches decides (break), no later line is read.
scan_file(reggie, lines, i) ==
    IF i > Len(lines) THEN NotFound
    ELSE CHOOSE r \in {
             IF matcher.matched
             THEN [found |-> TRUE] @@ resolve_color(matcher.group1)
             ELSE scan_file(reggie, lines, i + 1)
           : matcher \in {mapping_match(reggie, lines[i])} } : TRUE

\* Lines 223-244, the loop over compiled_mappings.items(): what the scan of the
\* file finds for each option, in the order of MAPPINGS.
scan_options(lines) ==
    CHOOSE scans \in {
        SubSeq(scansFcn, 1, Len(MAPPINGS_keys))
      : scansFcn \in {[i \in 1..Len(MAPPINGS_keys) |->
                          CHOOSE r \in {scan_file(reggie, lines, 1)
                                          : reggie \in {MAPPINGS[MAPPINGS_keys[i]]}} : TRUE]}
      } : TRUE

\* The dict the loop has filled when it ends or raises: the options found
\* before the first that raises. The file is opened once per option, so a file
\* that cannot be opened raises at the first.
scan_mappings(file) ==
    IF ~file.exists
    THEN [raised |-> TRUE, exception |-> "OSError", resource_hex_values |-> EmptyDict]
    ELSE CHOOSE r \in {
             CHOOSE r2 \in {
                 [raised |-> stop <= Len(scans),
                  exception |-> IF stop <= Len(scans) THEN scans[stop].hex_value ELSE "",
                  resource_hex_values |->
                      [option \in {MAPPINGS_keys[i] : i \in {j \in 1..(stop - 1) : scans[j].found}}
                          |-> scans[CHOOSE i \in 1..Len(scans) : MAPPINGS_keys[i] = option].hex_value]
                      @@ EmptyDict]
               : stop \in {Min({i \in 1..Len(scans) : scans[i].raised} \cup {Len(scans) + 1})}
               } : TRUE
           : scans \in {scan_options(file.lines)} } : TRUE

\* Lines 253-262, one turn of the loop over resource_hex_values.items(): the value
\* the resource holds after it. (It reads only the two colours taken before the
\* loop and writes only its own key, so the turns do not depend on their order.)
adjusted_color(resource, color, foreground_color, background_color) ==
    IF color = "fg" THEN foreground_color
    ELSE IF color = "bg" THEN background_color
    ELSE IF resource # "background"
            /\ color_distance(color, background_color) < 10
    THEN foreground_color
    ELSE color

\* Does that turn raise (color_distance does)?
adjust_raises(resource, color, background_color) ==
    /\ color \notin {"fg", "bg"}
    /\ resource # "background"
    /\ color_distance_raises(color, background_color)

\* Lines 246-265 on the dict the scan filled. A stored value is a string, never
\* None, and the dict holds 'background' here, so neither raise of lines 250
\* and 265 is reached; a missing key raises KeyError at lines 247-248.
adjust_colors(resource_hex_values) ==
    IF "background" \notin DOMAIN resource_hex_values
    THEN [raised |-> TRUE, exception |-> "KeyError: 'background'",
          resource_hex_values |-> resource_hex_values]
    ELSE IF "foreground" \notin DOMAIN resource_hex_values
    THEN [raised |-> TRUE, exception |-> "KeyError: 'foreground'",
          resource_hex_values |-> resource_hex_values]
    ELSE CHOOSE r \in {
             IF \E resource \in DOMAIN resource_hex_values :
                    adjust_raises(resource, resource_hex_values[resource], background_color)
             THEN [raised |-> TRUE, exception |-> "ValueError",
                   resource_hex_values |-> resource_hex_values]
             ELSE [raised |-> FALSE, exception |-> "",
                   resource_hex_values |->
                       [resource \in DOMAIN resource_hex_values |->
                           adjusted_color(resource, resource_hex_values[resource],
                                          foreground_color, background_color)] @@ EmptyDict]
           : background_color \in {resource_hex_values["background"]},
             foreground_color \in {resource_hex_values["foreground"]} } : TRUE

\* The keys of the dict in its order, which is the order of insertion: that of
\* MAPPINGS.
dict_keys(resource_hex_values) ==
    SelectSeq(MAPPINGS_keys, LAMBDA option : option \in DOMAIN resource_hex_values)

\* The list comprehension of lines 267-268: one formatted string per item of the
\* dict, in the dict's order.
formatted_items(resource_hex_values, option_fmt) ==
    CHOOSE r \in {
        SubSeq([i \in 1..Len(keys) |-> str_format(option_fmt, keys[i], resource_hex_values[keys[i]])],
               1, Len(keys))
      : keys \in {dict_keys(resource_hex_values)} } : TRUE

\* sorted_items without sorted(): the items in the dict's order.
sorted_items_in_dict_order(resource_hex_values, option_fmt) ==
    formatted_items(resource_hex_values, option_fmt)

\* sorted([...]) of line 267
sorted_items(resource_hex_values, option_fmt) ==
    CHOOSE r \in {sorted(items) : items \in {formatted_items(resource_hex_values, option_fmt)}} : TRUE

\* Lines 246-268 on the dict the scan filled. resource_hex_values is the dict
\* as the function leaves it.
finish_options(scanned, options, option_fmt) ==
    CHOOSE r \in {
        IF adj.raised
        THEN [raised |-> TRUE, exception |-> adj.exception, value |-> <<>>,
              resource_hex_values |-> scanned]
        ELSE [raised |-> FALSE, exception |-> "",
              value |-> options \o sorted_items(adj.resource_hex_values, option_fmt),
              resource_hex_values |-> adj.resource_hex_values]
      : adj \in {adjust_colors(scanned)} } : TRUE

\* generate_options(filename, options, option_format): the list it returns, or
\* the exception it raises, with the dict resource_hex_values as the loop of
\* lines 223-244 left it (extracted) and as the function leaves it. file is
\* what open(filename) finds.
generate_options(file, options, option_fmt) ==
    CHOOSE r \in {
        IF scan.raised
        THEN [raised |-> TRUE, exception |-> scan.exception, value |-> <<>>,
              resource_hex_values |-> scan.resource_hex_values,
              extracted |-> scan.resource_hex_values]
        ELSE [extracted |-> scan.resource_hex_values]
                 @@ finish_options(scan.resource_hex_values, options, option_fmt)
      : scan \in {scan_mappings(file)} } : TRUE

NoResult ==
    [raised |-> FALSE, exception |-> "", value |-> <<>>,
     resource_hex_values |-> EmptyDict, extracted |-> EmptyDict]

----------------------------------------------------------------------------
(* The main program                                                        *)

TerminalKinds == {"urxvt", "kitty", "xterm"}

\* Lines 299-307: the options list, format, prefix and command of each branch.
OptionsOf(kind) ==
    CASE kind = "urxvt" -> URXVT_XRESOURCES
      [] kind = "kitty" -> KITTY_OPTIONS
      [] OTHER -> XTERM_XRESOURCES

FormatOf(kind) ==
    CASE kind = "urxvt" -> "URxvt*{0}: #{1}"
      [] kind = "kitty" -> "{0}=#{1}"
      [] OTHER -> "xterm*{0}: #{1}"

PrefixOf(kind) ==
    CASE kind = "urxvt" -> URXVT_XRESOURCES_PREFIX
      [] kind = "kitty" -> KITTY_OPTIONS_PREFIX
      [] OTHER -> XTERM_XRESOURCES_PREFIX

CommandOf(kind) ==
    CASE kind = "urxvt" -> URXVT_COMMAND
      [] kind = "kitty" -> KITTY_COMMAND
      [] OTHER -> XTERM_COMMAND

RECURSIVE squash(_, _)
\* [option for squashed in [[prefix, option] for option in options] for option in squashed]
squash(prefix, options) ==
    IF options = <<>> THEN <<>>
    ELSE <<prefix, Head(options)>> \o squash(prefix, Tail(options))

\* The command one of the three branches builds from what generate_options returned.
build_command(kind, generated) == <<CommandOf(kind)>> \o squash(PrefixOf(kind), generated)

----------------------------------------------------------------------------
(* Bounds and inputs                                                       *)

MaxCandidates == 3
MaxLines == 3
MaxRgbLines == 3

\* Sequences over S of length at most n
SeqsUpTo(S, n) == UNION {[1..k -> S] : k \in 0..n}

\* Lines of an rgb.txt, each with the record it holds (<<>> for a line that
\* is no record).
RgbLines ==
    { [text |-> "255 255 255\t\twhite\n", record |-> <<255, 255, 255, "white">>],
      [text |-> "255   0   0\t\tRed\n", record |-> <<255, 0, 0, "red">>],
      [text |-> "139 0 0 red\n", record |-> <<139, 0, 0, "red">>],
      [text |-> "  0   0 139\t\tDarkBlue\n", record |-> <<0, 0, 139, "darkblue">>],
      [text |-> " 10  20  30\t\tdark slate\n", record |-> <<10, 20, 30, "dark slate">>],
      [text |-> "! $Xorg: rgb.txt $\n", record |-> <<>>],
      [text |-> "255 250 snow\n", record |-> <<>>],
      [text |-> "\n", record |-> <<>>] }

\* The rgb.txt the theme files are read with.
RGB_TXT ==
    << "! $Xorg: rgb.txt $\n",
       "255 255 255\t\twhite\n",
       "255   0   0\t\tRed\n",
       "  0   0 139\t\tDarkBlue\n",
       "190 190 190\t\tgray\n" >>

\* An rgb.txt that also names a colour "fg".
RGB_TXT_FG == RGB_TXT \o << "128 128 128\t\tfg\n" >>

\* A colour reference a line gives: the highlight group and key it follows,
\* and the reference in lower case.
Ref(group, key, lowered) == [group |-> group, key |-> key, lowered |-> lowered]

\* Lines of theme files, each with the colour references it gives.
ThemeLines ==
    { [text |-> "hi Normal guifg=#D0D0D0 guibg=#000000\n",
       gives |-> {Ref("Normal", "guifg=", "#d0d0d0"), Ref("Normal", "guibg=", "#000000")}],
      [text |-> "hi Normal guifg=fg guibg=#101010\n",
       gives |-> {Ref("Normal", "guifg=", "fg"), Ref("Normal", "guibg=", "#101010")}],
      [text |-> "hi Normal guifg=White\n",
       gives |-> {Ref("Normal", "guifg=", "white")}],
      [text |-> "hi Normal guibg=bg\n",
       gives |-> {Ref("Normal", "guibg=", "bg")}],
      [text |-> "hi Normal guibg=#101010\n",
       gives |-> {Ref("Normal", "guibg=", "#101010")}],
      [text |-> "hi Comment guifg=bg gui=italic\n",
       gives |-> {Ref("Comment", "guifg=", "bg")}],
      [text |-> "hi Comment guifg=#808080\n",
       gives |-> {Ref("Comment", "guifg=", "#808080")}],
      [text |-> "hi Type guifg=fg\n",
       gives |-> {Ref("Type", "guifg=", "fg")}],
      [text |-> "hi ErrorMsg guifg=Red guibg=DarkBlue\n",
       gives |-> {Ref("ErrorMsg", "guifg=", "red")}],
      [text |-> "hi Comment guifg=notacolor\n",
       gives |-> {Ref("Comment", "guifg=", "notacolor")}],
      [text |-> "hi SpecialComment guifg=#000400\n",
       gives |-> {Ref("Special", "guifg=", "#000400"), Ref("Comment", "guifg=", "#000400")}],
      [text |-> "hi Todo guifg=#fff\n",
       gives |-> {Ref("Todo", "guifg=", "#fff")}],
      [text |-> "hi Search guifg=#12345g\n",
       gives |-> {Ref("Search", "guifg=", "#12345g")}] }

\* The lines the theme files given to generate_options on its own are made of.
ThemeTexts ==
    { "hi Normal guifg=#D0D0D0 guibg=#000000\n",
      "hi Normal guifg=fg guibg=#101010\n",
      "hi Normal guifg=White\n",
      "hi Normal guibg=bg\n",
      "hi Comment guifg=bg gui=italic\n",
      "hi Type guifg=fg\n",
      "hi ErrorMsg guifg=Red guibg=DarkBlue\n",
      "hi Comment guifg=notacolor\n",
      "hi SpecialComment guifg=#000400\n" }

\* The theme files of the candidate loop, by path.
FS ==
    [path \in {"colors/desert.vim", "colors/iceberg.vim", "colors/nofg.vim",
               "colors/notacolor.vim", "colors/shorthex.vim", "colors/badhex.vim",
               "colors/README"} |->
        CASE path = "colors/desert.vim" ->
                 TextFile(<< "hi Normal guifg=#D0D0D0 guibg=#000000\n",
                             "hi ErrorMsg guifg=Red guibg=DarkBlue\n",
                             "hi Type guifg=fg\n" >>)
          [] path = "colors/iceberg.vim" ->
                 TextFile(<< "hi Comment guifg=bg gui=italic\n",
                             "hi Normal guifg=White\n",
                             "hi Normal guifg=#D0D0D0 guibg=#000000\n" >>)
          [] path = "colors/nofg.vim" ->
                 TextFile(<< "hi Normal guibg=#101010\n",
                             "hi Comment guifg=#808080\n" >>)
          [] path = "colors/notacolor.vim" ->
                 TextFile(<< "hi Normal guifg=#D0D0D0 guibg=#000000\n",
                             "hi Comment guifg=notacolor\n",
                             "hi Comment guifg=#808080\n" >>)
          [] path = "colors/shorthex.vim" ->
                 TextFile(<< "hi Normal guifg=#D0D0D0 guibg=#000000\n",
                             "hi Todo guifg=#fff\n" >>)
          [] path = "colors/badhex.vim" ->
                 TextFile(<< "hi Search guifg=#12345g\n",
                             "hi Normal guifg=#D0D0D0 guibg=#000000\n" >>)
          [] OTHER -> NoFile]

----------------------------------------------------------------------------
(* The program: lines 292-321                                              *)

Init ==
    /\ pc = "start"
    /\ rgbfile \in {TextFile(RGB_TXT), TextFile(RGB_TXT_FG), NoFile}
    /\ NAMED_COLORS = EmptyDict
    /\ PARSED_ARGS \in TerminalKinds
    /\ GLOBBED_FILES \in SeqsUpTo(DOMAIN FS, MaxCandidates)
    /\ vim_file = 1
    /\ attempts = <<>>
    /\ command = <<>>
    /\ term_environment = EmptyDict
    /\ popen = <<>>
    /\ vimfile = NoFile
    /\ option_format = FormatOf(PARSED_ARGS)
    /\ result = NoResult

\* Line 292: load_vim_named_colors(); an rgb.txt that cannot be opened ends the
\* run in sys.exit.
Load ==
    /\ pc = "start"
    /\ IF rgbfile.exists
       THEN /\ NAMED_COLORS' = load_vim_named_colors(rgbfile, NAMED_COLORS)
            /\ pc' = "loop"
       ELSE /\ NAMED_COLORS' = NAMED_COLORS
            /\ pc' = "exit"
    /\ UNCHANGED <<rgbfile, PARSED_ARGS, GLOBBED_FILES, vim_file, attempts, command,
                   term_environment, popen, vimfile, option_format, result>>

\* TryCandidate without the break of line 311: the loop goes on after a return.
TryCandidate_no_break ==
    /\ pc = "loop"
    /\ vim_file <= Len(GLOBBED_FILES)
    /\ \E path \in {GLOBBED_FILES[vim_file]} :
       \E file \in {FS[path]} :
       \E r \in {generate_options(file, OptionsOf(PARSED_ARGS), FormatOf(PARSED_ARGS))} :
           /\ result' = r
           /\ vimfile' = file
           /\ attempts' = Append(attempts, [vim_file |-> path, raised |-> r.raised])
           /\ vim_file' = vim_file + 1
           /\ IF r.raised
              THEN UNCHANGED <<command, term_environment, pc>>
              ELSE /\ command' = build_command(PARSED_ARGS, r.value)
                   /\ term_environment' = DictSet(term_environment, ENV_COLOR_SCHEME_NAME_VAR, path)
                   /\ UNCHANGED pc
    /\ UNCHANGED <<rgbfile, NAMED_COLORS, PARSED_ARGS, GLOBBED_FILES, popen, option_format>>

\* Lines 297-315, one turn of the for loop: the try block on the next candidate.
\* A return sets command and the environment variable and breaks; a raise is
\* swallowed by the bare except and the loop goes on.
TryCandidate ==
    /\ pc = "loop"
    /\ vim_file <= Len(GLOBBED_FILES)
    /\ \E path \in {GLOBBED_FILES[vim_file]} :
       \E file \in {FS[path]} :
       \E r \in {generate_options(file, OptionsOf(PARSED_ARGS), FormatOf(PARSED_ARGS))} :
           /\ result' = r
           /\ vimfile' = file
           /\ attempts' = Append(attempts, [vim_file |-> path, raised |-> r.raised])
           /\ IF r.raised
              THEN /\ vim_file' = vim_file + 1
                   /\ UNCHANGED <<command, term_environment, pc>>
              ELSE /\ command' = build_command(PARSED_ARGS, r.value)
                   /\ term_environment' = DictSet(term_environment, ENV_COLOR_SCHEME_NAME_VAR, path)
                   /\ pc' = "launch"
                   /\ UNCHANGED vim_file
    /\ UNCHANGED <<rgbfile, NAMED_COLORS, PARSED_ARGS, GLOBBED_FILES, popen, option_format>>

\* The for loop ends with no candidate left.
LoopExhausted ==
    /\ pc = "loop"
    /\ vim_file > Len(GLOBBED_FILES)
    /\ pc' = "launch"
    /\ UNCHANGED <<rgbfile, NAMED_COLORS, PARSED_ARGS, GLOBBED_FILES, vim_file, attempts,
                   command, term_environment, popen, vimfile, option_format, result>>

\* Lines 317-319: print the command and call subprocess.Popen(command, ...),
\* whatever the loop left in command. Popen of an empty list raises IndexError,
\* which nothing catches: the run ends in a traceback.
Launch ==
    /\ pc = "launch"
    /\ popen' = Append(popen, [args |-> command, env |-> term_environment])
    /\ pc' = IF command = <<>> THEN "traceback" ELSE "communicate"
    /\ UNCHANGED <<rgbfile, NAMED_COLORS, PARSED_ARGS, GLOBBED_FILES, vim_file, attempts,
                   command, term_environment, vimfile, option_format, result>>

\* Lines 320-330: wait for the terminal. stderr is not piped, so it is None and
\* a return code other than 0 does not reach sys.exit.
Communicate ==
    /\ pc = "communicate"
    /\ \E return_code \in {0, 1} : pc' = "done"
    /\ UNCHANGED <<rgbfile, NAMED_COLORS, PARSED_ARGS, GLOBBED_FILES, vim_file, attempts,
                   command, term_environment, popen, vimfile, option_format, result>>

Next == Load \/ TryCandidate \/ LoopExhausted \/ Launch \/ Communicate

Spec == Init /\ [][Next]_vars

----------------------------------------------------------------------------
(* generate_options on its own, over the theme files of at most MaxLines   *)
(* lines                                                                   *)

InitGen ==
    /\ pc = "call"
    /\ rgbfile = TextFile(RGB_TXT)
    /\ NAMED_COLORS = load_vim_named_colors(rgbfile, EmptyDict)
    /\ PARSED_ARGS \in TerminalKinds
    /\ GLOBBED_FILES = <<>>
    /\ vim_file = 1
    /\ attempts = <<>>
    /\ command = <<>>
    /\ term_environment = EmptyDict
    /\ popen = <<>>
    /\ vimfile \in {TextFile(lines) : lines \in SeqsUpTo(ThemeTexts, MaxLines)}
    /\ option_format = FormatOf(PARSED_ARGS)
    /\ result = NoResult

CallGenerateOptions ==
    /\ pc = "call"
    /\ result' = generate_options(vimfile, OptionsOf(PARSED_ARGS), option_format)
    /\ pc' = "returned"
    /\ UNCHANGED <<rgbfile, NAMED_COLORS, PARSED_ARGS, GLOBBED_FILES, vim_file, attempts,
                   command, term_environment, popen, vimfile, option_format>>

NextGen == CallGenerateOptions

SpecGen == InitGen /\ [][NextGen]_vars

----------------------------------------------------------------------------
(* load_vim_named_colors on its own, over the rgb.txt of at most           *)
(* MaxRgbLines lines                                                       *)

InitLoad ==
    /\ pc = "start"
    /\ rgbfile \in {TextFile(lines) : lines \in SeqsUpTo({l.text : l \in RgbLines}, MaxRgbLines)}
                   \cup {NoFile}
    /\ NAMED_COLORS = EmptyDict
    /\ PARSED_ARGS = "xterm"
    /\ GLOBBED_FILES = <<>>
    /\ vim_file = 1
    /\ attempts = <<>>
    /\ command = <<>>
    /\ term_environment = EmptyDict
    /\ popen = <<>>
    /\ vimfile = NoFile
    /\ option_format = FormatOf(PARSED_ARGS)
    /\ result = NoResult

NextLoad == Load

SpecLoad == InitLoad /\ [][NextLoad]_vars

----------------------------------------------------------------------------
(* generate_options on its own, over theme files that give a foreground,   *)
(* a background and a Comment colour by their channels                     *)

HexDigitsUpper == "0123456789ABCDEF"

\* A channel of 0..255 as a theme file may write it
ChannelText(n) ==
    SubSeq(HexDigitsUpper, (n \div 16) + 1, (n \div 16) + 1)
        \o SubSeq(HexDigitsUpper, (n % 16) + 1, (n % 16) + 1)

\* A colour <<r, g, b>> as a theme file may write it
ColourText(c) == "#" \o ChannelText(c[1]) \o ChannelText(c[2]) \o ChannelText(c[3])

DistForegrounds == {<<208, 208, 208>>, <<0, 0, 1>>}
DistBackgrounds == {<<0, 0, 0>>, <<70, 0, 0>>, <<255, 255, 255>>}
DistSlots == {0, 7, 8, 70, 71, 250, 255} \X {0, 4, 5, 251, 255} \X {0, 5, 6, 255}

\* The theme file of the three colours
DistFile(fg, bg, slot) ==
    TextFile(<< "hi Normal guifg=" \o ColourText(fg) \o " guibg=" \o ColourText(bg) \o "\n",
                "hi Comment guifg=" \o ColourText(slot) \o "\n" >>)

InitDist ==
    /\ pc = "call"
    /\ rgbfile = TextFile(RGB_TXT)
    /\ NAMED_COLORS = load_vim_named_colors(rgbfile, EmptyDict)
    /\ PARSED_ARGS = "kitty"
    /\ GLOBBED_FILES = <<>>
    /\ vim_file = 1
    /\ attempts = <<>>
    /\ command = <<>>
    /\ term_environment = EmptyDict
    /\ popen = <<>>
    /\ vimfile \in {DistFile(fg, bg, slot) :
                        fg \in DistForegrounds, bg \in DistBackgrounds, slot \in DistSlots}
    /\ option_format = FormatOf(PARSED_ARGS)
    /\ result = NoResult

SpecDist == InitDist /\ [][NextGen]_vars

----------------------------------------------------------------------------
(* What the theme files say, read off the annotations of ThemeLines: the   *)
(* yardstick the properties below hold the program against                 *)

Slots == {MAPPINGS_keys[i] : i \in 1..Len(MAPPINGS_keys)}

\* The references the line with this text gives
Gives(text) == (CHOOSE l \in ThemeLines : l.text = text).gives

\* The references a line gives for a slot
GivesFor(text, slot) ==
    {g \in Gives(text) : g.group = MAPPINGS[slot].group /\ g.key = MAPPINGS[slot].key}

\* The numbers of the lines that give a reference for the slot
GivingLines(lines, slot) == {i \in 1..Len(lines) : GivesFor(lines[i], slot) # {}}

\* The slots some line gives a reference for
SlotsPresent(lines) == {slot \in Slots : GivingLines(lines, slot) # {}}

\* The reference of the first line that gives one for the slot
FirstRef(lines, slot) ==
    (CHOOSE g \in GivesFor(lines[Min(GivingLines(lines, slot))], slot) : TRUE).lowered

\* '#' followed by six lower-case hex digits
IsHashHex6(ref) ==
    /\ Len(ref) = 7
    /\ SubSeq(ref, 1, 1) = "#"
    /\ \A i \in 2..7 : SubSeq(ref, i, i) \in LowerHexChars

IsDeferred(ref) == ref \in {"fg", "bg"}

\* Can the reference be resolved: a name of the table, fg or bg, or a hex colour
Resolvable(ref, table) == ref \in DOMAIN table \/ IsDeferred(ref) \/ IsHashHex6(ref)

\* What a resolvable reference resolves to: the table goes first, then the
\* deferred markers, then the hex colours
Resolved(ref, table) ==
    IF ref \in DOMAIN table THEN table[ref]
    ELSE IF IsDeferred(ref) THEN ref
    ELSE SubSeq(ref, 2, 7)

\* The extracted values a file whose first references are all resolvable gives
ExpectedExtracted(lines, table) ==
    [slot \in SlotsPresent(lines) |-> Resolved(FirstRef(lines, slot), table)]

\* Is the first reference of some slot unresolvable
FirstRefUnresolvable(lines, table) ==
    \E slot \in SlotsPresent(lines) : ~Resolvable(FirstRef(lines, slot), table)

\* Six lower-case hex digits
IsHex6(value) ==
    /\ Len(value) = 6
    /\ \A i \in 1..6 : SubSeq(value, i, i) \in LowerHexChars

\* The entry of a slot in the output for a terminal
Entry(kind, slot, value) ==
    CASE kind = "urxvt" -> "URxvt*" \o slot \o ": #" \o value
      [] kind = "kitty" -> slot \o "=#" \o value
      [] kind = "xterm" -> "xterm*" \o slot \o ": #" \o value

\* The colour entries of a returned list: what follows the fixed options
ColourEntries(kind, value) == SubSeq(value, Len(OptionsOf(kind)) + 1, Len(value))

Returned == pc = "returned" /\ ~result.raised

----------------------------------------------------------------------------
(* C10 *)

\* C10: each slot's extracted value comes from the first line of the file that
\* gives a reference for the slot, whatever later lines give: when every first
\* reference is resolvable the extracted values are exactly those of the first
\* references, and when the first reference of some slot is unresolvable the
\* call fails with 'invalid hex', also when a later line gives a valid one.
C10_FirstMatchWins ==
    pc = "returned" =>
        \A lines \in {vimfile.lines} :
            IF FirstRefUnresolvable(lines, NAMED_COLORS)
            THEN /\ result.raised
                 /\ \E slot \in SlotsPresent(lines) :
                        result.exception = "invalid hex: " \o FirstRef(lines, slot)
            ELSE result.extracted = ExpectedExtracted(lines, NAMED_COLORS)

\* Two lines give different references for the foreground, and the first has
\* been taken.
C10_Witness ==
    /\ Returned
    /\ \E i, j \in GivingLines(vimfile.lines, "foreground") :
          /\ i < j
          /\ GivesFor(vimfile.lines[i], "foreground") # GivesFor(vimfile.lines[j], "foreground")
    /\ result.extracted["foreground"] =
           Resolved(FirstRef(vimfile.lines, "foreground"), NAMED_COLORS)

----------------------------------------------------------------------------
(* C5 *)

\* Do the Normal lines of the file give both colours, each time as '#' and six
\* hex digits, and are all references of the file resolvable
ValidTheme(lines, table) ==
    /\ {"foreground", "background"} \subseteq SlotsPresent(lines)
    /\ \A i \in 1..Len(lines) : \A g \in Gives(lines[i]) :
          /\ g.group = "Normal" => IsHashHex6(g.lowered)
          /\ Resolvable(g.lowered, table)

\* C5: on a file whose Normal lines give guifg= and guibg= as '#' and six hex
\* digits and whose references are all resolvable, generate_options returns,
\* with one entry for each slot some line gives a reference for and no other,
\* each with a value of six lower-case hex digits.
C5_ValidThemeSucceeds ==
    (pc = "returned" /\ ValidTheme(vimfile.lines, NAMED_COLORS)) =>
        /\ ~result.raised
        /\ DOMAIN result.resource_hex_values = SlotsPresent(vimfile.lines)
        /\ \A entries \in {ColourEntries(PARSED_ARGS, result.value)} :
              /\ Len(entries) = Cardinality(SlotsPresent(vimfile.lines))
              /\ \A slot \in SlotsPresent(vimfile.lines) :
                    /\ IsHex6(result.resource_hex_values[slot])
                    /\ \E i \in 1..Len(entries) :
                          entries[i] = Entry(PARSED_ARGS, slot, result.resource_hex_values[slot])

\* A valid file with a named colour, a deferred colour and upper-case hex digits
\* has been converted.
C5_Witness ==
    /\ Returned
    /\ ValidTheme(vimfile.lines, NAMED_COLORS)
    /\ \E i \in 1..Len(vimfile.lines) : \E g \in Gives(vimfile.lines[i]) : IsDeferred(g.lowered)
    /\ \E i \in 1..Len(vimfile.lines) : \E g \in Gives(vimfile.lines[i]) : g.lowered \in DOMAIN NAMED_COLORS
    /\ Cardinality(DOMAIN result.resource_hex_values) >= 6

----------------------------------------------------------------------------
(* C3 *)

\* Slot identifiers in lexicographic order
SlotsByIdentifier ==
    << "background", "color0", "color1", "color10", "color11", "color12", "color13",
       "color14", "color15", "color2", "color3", "color4", "color5", "color6", "color7",
       "color8", "color9", "foreground" >>

\* Slot identifiers in the order of their formatted entries: each format puts
\* ':' or '=' after the identifier, which sorts after the digits
SlotsByEntry ==
    << "background", "color0", "color10", "color11", "color12", "color13", "color14",
       "color15", "color1", "color2", "color3", "color4", "color5", "color6", "color7",
       "color8", "color9", "foreground" >>

\* The place of a slot in an order
Place(order, slot) == CHOOSE k \in 1..Len(order) : order[k] = slot

\* The slot of an entry of the returned list
EntrySlot(entry) ==
    CHOOSE slot \in DOMAIN result.resource_hex_values :
        entry = Entry(PARSED_ARGS, slot, result.resource_hex_values[slot])

\* Do the colour entries of the returned list follow the order
EntriesFollow(order) ==
    \A entries \in {ColourEntries(PARSED_ARGS, result.value)} :
        /\ \A i \in 1..Len(entries) :
               \E slot \in DOMAIN result.resource_hex_values :
                   entries[i] = Entry(PARSED_ARGS, slot, result.resource_hex_values[slot])
        /\ \A i \in 1..(Len(entries) - 1) :
               Place(order, EntrySlot(entries[i])) < Place(order, EntrySlot(entries[i + 1]))

\* C3 as stated: the colour entries of every returned list are in lexicographic
\* order of their slot identifiers (color1 before color10), for each format.
C3_OrderedBySlotIdentifier == Returned => EntriesFollow(SlotsByIdentifier)

\* C3 as amended: the colour entries of every returned list are in ascending
\* order of the formatted entries, which puts color10..color15 before color1,
\* for each format and whatever the order of the file's lines.
C3_OrderedByEntry == Returned => EntriesFollow(SlotsByEntry)

\* A list with entries for color1 and color10 has been returned.
C3_Witness ==
    /\ Returned
    /\ {"color1", "color10"} \subseteq DOMAIN result.resource_hex_values
    /\ Len(ColourEntries(PARSED_ARGS, result.value)) >= 6

----------------------------------------------------------------------------
(* C4 *)

\* C4: generate_options returns only if the file gives a foreground and a
\* background reference and neither is the deferred marker 'fg' or 'bg'.
C4_NeedsBothNonDeferred ==
    Returned =>
        /\ {"foreground", "background"} \subseteq SlotsPresent(vimfile.lines)
        /\ ~IsDeferred(FirstRef(vimfile.lines, "foreground"))
        /\ ~IsDeferred(FirstRef(vimfile.lines, "background"))

----------------------------------------------------------------------------
(* C7 *)

\* C7: in every returned list, a slot whose reference is 'fg' has the value of
\* the foreground entry and a slot whose reference is 'bg' that of the
\* background entry, and no entry holds a deferred marker.
C7_DeferredResolved ==
    Returned =>
        \A final \in {result.resource_hex_values} :
        \A slot \in DOMAIN final :
            /\ result.extracted[slot] = "fg" => final[slot] = final["foreground"]
            /\ result.extracted[slot] = "bg" => final[slot] = final["background"]
            /\ ~IsDeferred(final[slot])
            /\ \E i \in 1..Len(result.value) :
                   result.value[i] = Entry(PARSED_ARGS, slot, final[slot])

----------------------------------------------------------------------------
(* C9 *)

\* The record the rgb.txt line with this text holds
RecordOf(text) == (CHOOSE l \in RgbLines : l.text = text).record

\* The numbers of the lines that hold a record of the name
RecordLines(lines, name) ==
    {i \in 1..Len(lines) : RecordOf(lines[i]) # <<>> /\ RecordOf(lines[i])[4] = name}

\* The names the records of the file give, in lower case
RecordNames(lines) ==
    {RecordOf(lines[i])[4] : i \in {j \in 1..Len(lines) : RecordOf(lines[j]) # <<>>}}

\* A number of 0..255 as two hex digits
TwoHexDigits(n) ==
    SubSeq("0123456789abcdef", (n \div 16) + 1, (n \div 16) + 1)
        \o SubSeq("0123456789abcdef", (n % 16) + 1, (n % 16) + 1)

\* The first number of a record, as two hex digits, three times
RedThrice(record) ==
    TwoHexDigits(record[1]) \o TwoHexDigits(record[1]) \o TwoHexDigits(record[1])

\* C9: after load_vim_named_colors the table holds one entry for each name the
\* records '<R> <G> <B> <name>' of rgb.txt give, in lower case, and no other;
\* the entry is the two-digit hex of R three times, R that of the last record
\* of the name.
C9_TableHoldsRedThrice ==
    pc = "loop" =>
        \A lines \in {rgbfile.lines} :
            /\ DOMAIN NAMED_COLORS = RecordNames(lines)
            /\ \A name \in RecordNames(lines) :
                   NAMED_COLORS[name] = RedThrice(RecordOf(lines[Max(RecordLines(lines, name))]))

\* Two records of the name 'red' with different numbers have been loaded, with a
\* line that is no record, and the entry is not the colour's red, green and
\* blue.
C9_Witness ==
    /\ pc = "loop"
    /\ \E i, j \in RecordLines(rgbfile.lines, "red") :
           i < j /\ RecordOf(rgbfile.lines[i])[1] # RecordOf(rgbfile.lines[j])[1]
    /\ \E i \in 1..Len(rgbfile.lines) : RecordOf(rgbfile.lines[i]) = <<>>
    /\ NAMED_COLORS["red"] \in {"ffffff", "8b8b8b"}

----------------------------------------------------------------------------
(* C6 *)

\* The colour whose text stands at place k of the line
ColourAt(line, k) ==
    CHOOSE c \in DistForegrounds \cup DistBackgrounds \cup DistSlots :
        ColourText(c) = SubSeq(line, k, k + 6)

\* The colours of a file of DistFile: "hi Normal guifg=" has 16 characters,
\* " guibg=" 7 and "hi Comment guifg=" 17
ForegroundOf(file) == ColourAt(file.lines[1], 17)
BackgroundOf(file) == ColourAt(file.lines[1], 31)
CommentOf(file) == ColourAt(file.lines[2], 18)

\* A colour as the output holds it
OutputText(c) == TwoHexDigits(c[1]) \o TwoHexDigits(c[2]) \o TwoHexDigits(c[3])

\* (a + b) / 2 rounded down and rounded up
HalfDown(n) == n \div 2
HalfUp(n) == (n + 1) \div 2

\* d2 between two colours:
\* ((512 + floor((r1+r2)/2)) * dr^2 >> 8) + 4*dg^2 + ((767 - ceil((r1+r2)/2)) * db^2 >> 8)
D2(c1, c2) ==
    (((512 + HalfDown(c1[1] + c2[1])) * (c1[1] - c2[1]) * (c1[1] - c2[1])) \div 256)
      + 4 * (c1[2] - c2[2]) * (c1[2] - c2[2])
      + (((767 - HalfUp(c1[1] + c2[1])) * (c1[3] - c2[3]) * (c1[3] - c2[3])) \div 256)

\* What a slot other than background holds in the end
Finalized(colour, fg, bg) == IF D2(colour, bg) < 100 THEN OutputText(fg) ELSE OutputText(colour)

\* C6: a slot other than background whose colour is at d2 < 100 from the
\* background ends with the foreground colour, one at d2 >= 100 with its own
\* colour; the background keeps its colour.
C6_TooCloseBecomesForeground ==
    pc = "returned" =>
        \A fg \in {ForegroundOf(vimfile)}, bg \in {BackgroundOf(vimfile)},
           slot \in {CommentOf(vimfile)} :
            /\ ~result.raised
            /\ result.resource_hex_values =
                   [s \in {"foreground", "background", "color0", "color8"} |->
                       CASE s = "background" -> OutputText(bg)
                         [] s = "foreground" -> Finalized(fg, fg, bg)
                         [] OTHER -> Finalized(slot, fg, bg)]
            /\ \E i \in 1..Len(result.value) :
                   result.value[i] = Entry(PARSED_ARGS, "color0", Finalized(slot, fg, bg))

\* A slot at d2 = 99, where rounding the red mean down in the blue term gives
\* 100, has been replaced by the foreground.
C6_Witness ==
    /\ pc = "returned"
    /\ D2(CommentOf(vimfile), BackgroundOf(vimfile)) = 99
    /\ HalfUp(CommentOf(vimfile)[1] + BackgroundOf(vimfile)[1])
           # HalfDown(CommentOf(vimfile)[1] + BackgroundOf(vimfile)[1])
    /\ CommentOf(vimfile)[3] # BackgroundOf(vimfile)[3]
    /\ result.resource_hex_values["color0"] = OutputText(ForegroundOf(vimfile))
    /\ result.resource_hex_values["color0"] # OutputText(CommentOf(vimfile))

----------------------------------------------------------------------------
(* C1 *)

\* The theme files of FS that can be converted
SucceedingPaths == {"colors/desert.vim", "colors/iceberg.vim"}

\* The colours their conversion gives. desert.vim: Red is 255 0 0 in rgb.txt,
\* Type is fg, which is the foreground unless rgb.txt names a colour fg.
\* iceberg.vim: the first Normal line gives White, Comment is bg.
ExpectedColours(path, table) ==
    IF path = "colors/desert.vim"
    THEN [slot \in {"background", "foreground", "color1", "color9", "color2", "color10"} |->
             CASE slot = "background" -> "000000"
               [] slot = "foreground" -> "d0d0d0"
               [] slot \in {"color1", "color9"} -> "ffffff"
               [] OTHER -> IF "fg" \in DOMAIN table THEN "808080" ELSE "d0d0d0"]
    ELSE [slot \in {"background", "foreground", "color0", "color8"} |->
             CASE slot = "foreground" -> "ffffff"
               [] OTHER -> "000000"]

RECURSIVE WithPrefix(_, _)
\* The prefix before each argument
WithPrefix(prefix, arguments) ==
    IF arguments = <<>> THEN <<>>
    ELSE <<prefix, arguments[1]>> \o WithPrefix(prefix, SubSeq(arguments, 2, Len(arguments)))

\* The command of a terminal with the colours
ExpectedCommand(kind, colours) ==
    <<CommandOf(kind)>>
        \o WithPrefix(PrefixOf(kind), OptionsOf(kind))
        \o WithPrefix(PrefixOf(kind),
               [i \in 1..Cardinality(DOMAIN colours) |->
                   Entry(kind,
                         SelectSeq(SlotsByEntry, LAMBDA slot : slot \in DOMAIN colours)[i],
                         colours[SelectSeq(SlotsByEntry, LAMBDA slot : slot \in DOMAIN colours)[i]])])

\* The places of the candidate list that hold a file that can be converted
SucceedingPlaces == {k \in 1..Len(GLOBBED_FILES) : GLOBBED_FILES[k] \in SucceedingPaths}

LoopEnded == pc \in {"launch", "communicate", "done", "traceback"}

\* C1: the candidates are tried in the order of the list; one that fails is
\* skipped and the loop goes on, the first that succeeds ends it: no later
\* candidate is tried, the command is made of its output, and its path is
\* recorded in the environment of the terminal.
C1_FirstSuccessWins ==
    /\ Len(attempts) <= Len(GLOBBED_FILES)
    /\ \A k \in 1..Len(attempts) :
          /\ attempts[k].vim_file = GLOBBED_FILES[k]
          /\ attempts[k].raised <=> GLOBBED_FILES[k] \notin SucceedingPaths
          /\ k < Len(attempts) => attempts[k].raised
    /\ (LoopEnded /\ SucceedingPlaces # {}) =>
          \A winner \in {Min(SucceedingPlaces)} :
              /\ Len(attempts) = winner
              /\ term_environment = [name \in {"VIM_COLOR_TERM_COLOR_SCHEME_FILE"} |-> GLOBBED_FILES[winner]]
              /\ command = ExpectedCommand(PARSED_ARGS,
                                ExpectedColours(GLOBBED_FILES[winner], NAMED_COLORS))
    /\ pc \in {"communicate", "done"} =>
          popen = << [args |-> command, env |-> term_environment] >>

\* Two candidates have failed, the third has succeeded, and its terminal has
\* been launched.
C1_Witness ==
    /\ pc = "communicate"
    /\ Len(attempts) = 3
    /\ attempts[1].raised /\ attempts[2].raised /\ ~attempts[3].raised
    /\ popen[1].env["VIM_COLOR_TERM_COLOR_SCHEME_FILE"] = GLOBBED_FILES[3]
    /\ popen[1].args = command

----------------------------------------------------------------------------
(* C2 *)

\* C2: when every candidate has failed, or there is none, no command is made
\* and subprocess.Popen is never called.
C2_NoLaunchWhenAllFail ==
    (/\ Len(attempts) = Len(GLOBBED_FILES)
     /\ \A k \in 1..Len(attempts) : attempts[k].raised)
        => (command = <<>> /\ popen = <<>>)

----------------------------------------------------------------------------
(* C8 *)

\* C8: a reference is looked up in the table of named colours first, then
\* taken as 'fg' or 'bg', then as '#' and six hex digits; a candidate with a
\* slot whose first reference is none of these fails, leaves no command, and
\* the loop goes on with the next candidate.
C8_UnresolvableSkipsCandidate ==
    /\ \A k \in 1..Len(attempts) :
          /\ (/\ FS[attempts[k].vim_file].exists
              /\ FirstRefUnresolvable(FS[attempts[k].vim_file].lines, NAMED_COLORS))
                 => attempts[k].raised
          /\ (attempts[k].raised /\ k < Len(GLOBBED_FILES)) =>
                 \/ Len(attempts) > k
                 \/ (pc = "loop" /\ vim_file = k + 1)
    /\ (\A k \in 1..Len(attempts) : attempts[k].raised) => command = <<>>
    /\ (Len(attempts) > 0 /\ vimfile.exists) =>
          IF FirstRefUnresolvable(vimfile.lines, NAMED_COLORS)
          THEN /\ result.raised
               /\ result.value = <<>>
               /\ \E slot \in SlotsPresent(vimfile.lines) :
                      result.exception = "invalid hex: " \o FirstRef(vimfile.lines, slot)
          ELSE result.extracted = ExpectedExtracted(vimfile.lines, NAMED_COLORS)

\* Candidates with the references 'notacolor' and '#fff' have failed, and the
\* next has been converted with the colour rgb.txt names fg.
C8_Witness ==
    /\ Len(attempts) = 3
    /\ attempts[1].vim_file = "colors/notacolor.vim" /\ attempts[1].raised
    /\ attempts[2].vim_file = "colors/shorthex.vim" /\ attempts[2].raised
    /\ attempts[3].vim_file = "colors/desert.vim" /\ ~attempts[3].raised
    /\ "fg" \in DOMAIN NAMED_COLORS
    /\ result.extracted["color2"] = NAMED_COLORS["fg"]

====
